---- MODULE Spec2Model ----
(***************************************************************************)
(* Model of src/components/Viz.vue: the animation scheduler (logical step  *)
(* interval + chained requestAnimationFrame redraw), the particle field,   *)
(* and the playback controller (play/pause, seek, volume, mute).           *)
(*                                                                         *)
(* Units.  Lengths are tenths of a CSS pixel, angles are tenths of a       *)
(* degree, volume is in tenths (8 = 0.8), time is in seconds, indicator    *)
(* sizes are percent.  Math.random() is drawn from RandNums / RandDen.     *)
(***************************************************************************)
EXTENDS Integers, Sequences, FiniteSets, TLC

---------------------------------------------------------------------------
(* Bounds of the model *)

\* number of particle slots modelled (FRAGMENTS_SETTINGS.count is 256)
FragmentsCount == 1
\* logical ticks executed at most
MaxTicks == 2
\* requestAnimationFrame callbacks outstanding at most
MaxCallbacks == 2
\* media events queued but not yet dispatched at most
MaxQueue == 2

---------------------------------------------------------------------------
(* Program constants *)

\* ANGLE_STEP = 0.3 degrees
ANGLE_STEP == 3
\* FRAGMENTS_SETTINGS.minRadius = 1/150
MinRadiusDiv == 150
\* FRAGMENTS_SETTINGS.maxRadius = 1/60
MaxRadiusDiv == 60
\* FRAGMENTS_SETTINGS.stepRadius = 1/2000
StepRadiusDiv == 2000
\* FRAGMENTS_SETTINGS.stepAngle = 1.5 degrees
StepAngleMax == 15
\* RADIUS_LIMIT.min = 1/5
RadiusLimitMinDiv == 5
\* RADIUS_LIMIT.max = 3/8
RadiusLimitMaxNum == 3
RadiusLimitMaxDen == 8
FREQ_BIN_COUNT == 256
\* ASPECT_RATIO = 16 / 9
AspectNum == 16
AspectDen == 9
\* audio.volume = 0.8
InitVolume == 8
\* volume 1.0 in tenths
VolumeOne == 10

---------------------------------------------------------------------------
(* Inputs *)

\* Math.random() values, as numerators over RandDen (0 and 1/2): for the
\* draw that places a particle, for the draws that size it and for the
\* draws that give angles
RandNums == {0, 1}
RandSizeNums == {1}
RandAngleNums == {0}
RandDen == Cardinality(RandNums)
\* wrapper.clientWidth at mount (0: not laid out yet) and the widths a
\* resize notification reports (1600px, 3200px)
MountWidths == {0, 32000}
ResizeWidths == {16000, 32000}
\* layout of the controls: barFull.clientWidth (200px) and
\* barVolumeFull.clientHeight (100px), and the offsets a pointer event
\* carries.  e.offsetX is measured by the browser against the event's target
\* and handed to the handler as it is, so it is not bound to the track: 250px
\* on the 200px track stands for an offset beyond its end.
Layout == [barFull |-> 2000, barVolumeFull |-> 1000]
OffsetXs == {0, 500, 2000, 2500}
OffsetYs == {0, 500, 1000}
\* wheel deltas: deltaX in quarters of the canvas width, deltaY in tenths of
\* the canvas height
WheelXQuarters == {-8, 0, 1}
WheelYTenths == {-12, 0, 5, 12}
\* durations the track may turn out to have once its metadata is known
KnownDurations == {120}
\* palettes ColorThief may return: lists of 1..3 colours (colour = hue id)
Palettes == {<<1>>, <<1, 2>>, <<1, 2, 3>>}

---------------------------------------------------------------------------
(* JavaScript numbers: a finite value or NaN *)

Num(x) == [nan |-> FALSE, v |-> x]
NaN == [nan |-> TRUE, v |-> 0]
isNaN(x) == x.nan
\* a < b and a > b are false when either side is NaN
NumLt(a, b) == ~a.nan /\ ~b.nan /\ a.v < b.v
NumGt(a, b) == ~a.nan /\ ~b.nan /\ a.v > b.v
NumSub(a, b) == IF a.nan \/ b.nan THEN NaN ELSE Num(a.v - b.v)
\* floor(a * n / d) for integers n and d > 0
NumScale(a, n, d) == IF a.nan THEN NaN ELSE Num((a.v * n) \div d)
\* a / b * 100 with b # 0
NumPercent(a, b) == IF a.nan \/ b.nan THEN NaN ELSE Num((a.v * 100) \div b.v)

---------------------------------------------------------------------------
VARIABLES
  \* the HTMLAudioElement: [paused, currentTime, duration, volume, muted]
  audio,
  \* the media resource has enough data to play (readyState)
  ready,
  \* media events queued on the element, not yet dispatched
  events,
  \* wrapper.clientWidth
  clientWidth,
  \* module state of the component
  isContextResumed, angleOffset, stepEventId, flushEventId,
  isLoading, isPlaying, isMuted, isSeeking, colors,
  canvasSize, fragmentSize, fragmentsArray,
  \* geometry cached by initCanvasSize: the canvas element's size, the
  \* spectrum's radius scale and per-bin angle, the 2d context's stroke width
  vizplayer, freqMultiplyRate, lineWidth,
  \* DOM text/styles written by the component
  timeNow, timeFull, barPlayed, seeker, barVolumeNow, wrapperBG,
  \* the browser: active intervals, requested animation frame callbacks,
  \* callbacks of the frame being run
  intervals, rafPending, rafFrame,
  \* the component has been unmounted (template refs are null), the cover
  \* image has fired its load event
  unmounted, coverLoaded,
  \* history: the last control handler run, logical ticks executed, a pause
  \* event has been handled and no play event since, calls of
  \* context.resume() made
  lastOp, ticks, sincePause, contextResumes,
  \* history: the requested callbacks that a one-shot trigger (resize,
  \* palette) requested
  oneShots

schedVars == <<stepEventId, flushEventId, intervals, rafPending, rafFrame,
               oneShots>>
mediaVars == <<ready, events>>
flagVars == <<isContextResumed, contextResumes, isLoading, isPlaying>>
geomVars == <<clientWidth, canvasSize, fragmentSize, vizplayer,
              freqMultiplyRate, lineWidth>>
seekVars == <<isSeeking, timeNow, barPlayed, seeker>>
volVars == <<isMuted, barVolumeNow>>
fieldVars == <<angleOffset, fragmentsArray, ticks>>
domVars == <<timeNow, timeFull, barPlayed, seeker, barVolumeNow, wrapperBG>>
vars == <<audio, ready, events, clientWidth, isContextResumed, angleOffset,
          stepEventId, flushEventId, isLoading, isPlaying, isMuted, isSeeking,
          colors, canvasSize, fragmentSize, fragmentsArray, timeNow, timeFull,
          barPlayed, seeker, barVolumeNow, wrapperBG, intervals, rafPending,
          rafFrame, unmounted, coverLoaded, lastOp, ticks, sincePause,
          contextResumes, oneShots, vizplayer, freqMultiplyRate, lineWidth>>

\* history record of a control handler run: its name, the e.offsetX it was
\* given, the time it passed to setProgress and the value that then assigned
\* to audio.currentTime, the value it passed to setVolume and the muted flag
\* setVolume found, whether it threw
Op(name) ==
  [name |-> name, offsetX |-> <<>>, seekReq |-> <<>>, seekArg |-> <<>>,
   volArg |-> <<>>, wasMuted |-> <<>>, threw |-> FALSE]
\* the last step was not a control handler
NoOp == Op("-")

---------------------------------------------------------------------------
(* Browser helpers *)

\* a handle the browser has not handed out among `used` (handles are only
\* ever compared for equality, so the least unused one stands for a fresh one)
NewId(used) ==
  CHOOSE n \in 1..(Cardinality(used) + 1) :
    n \notin used /\ \A m \in 1..(n - 1) : m \in used

Min(S) == CHOOSE n \in S : \A m \in S : n <= m

\* a CSS percentage written from a number: `${x}%`
Pct(x) == IF isNaN(x) THEN "NaN%" ELSE ToString(x.v) \o "%"

\* element.style.width / style.left = `${value}%`: a declaration that does
\* not parse ("NaN%") is dropped and the property keeps its value
setStyle(old, value) == IF isNaN(value) THEN old ELSE Pct(value)

\* parseSecondsToTime: "mm:ss", each part zero-padded below 10
Pad2(n) == IF n < 10 THEN "0" \o ToString(n) ELSE ToString(n)
parseSecondsToTime(seconds) ==
  IF isNaN(seconds) THEN "NaN:NaN"
  ELSE Pad2(seconds.v \div 60) \o ":" \o Pad2(seconds.v % 60)

---------------------------------------------------------------------------
(* Canvas geometry and the particle field *)

\* initCanvasSize: canvasSize from the container width
initCanvasSize(width) ==
  [width |-> width, height |-> (width * AspectDen) \div AspectNum]

\* initCanvasSize: the canvas element's width and height
initVizplayer(cs) == [width |-> cs.width, height |-> cs.height]

\* initCanvasSize: freqMultiplyRate, radius in tenths of a pixel per
\* magnitude level (height * (3/8 - 1/5) / 256), angle in tenths of a degree
initFreqMultiplyRate(cs) ==
  [radius |->
     (cs.height * (RadiusLimitMaxNum * RadiusLimitMinDiv - RadiusLimitMaxDen))
       \div (RadiusLimitMaxDen * RadiusLimitMinDiv * 256),
   angleInDegrees |-> 3600 \div FREQ_BIN_COUNT]

\* initCanvasSize: cctx.lineWidth = height / 4 * 2 * PI / FREQ_BIN_COUNT * 2 / 3
\* (PI as 355/113)
initLineWidth(cs) == (cs.height * 355) \div (113 * 3 * FREQ_BIN_COUNT)

\* initFragmentsSize: the particle sizing bounds from canvasSize
initFragmentsSize(cs) ==
  LET minPositionRadius == cs.height \div RadiusLimitMinDiv
  IN [minSelfRadius |-> cs.height \div MinRadiusDiv,
      maxSelfRadius |-> cs.height \div MaxRadiusDiv,
      minPositionRadius |-> minPositionRadius,
      maxPositionRadius |-> (cs.width \div 2) - minPositionRadius,
      stepRadius |-> cs.width \div StepRadiusDiv]

\* Math.random() * (hi - lo) + lo
RandBetween(r, lo, hi) == (r * (hi - lo)) \div RandDen + lo

\* the six draws of Math.random() one particle takes
RandDraws == [selfRadius : RandSizeNums, selfAngle : RandAngleNums,
              positionRadius : RandNums, positionAngle : RandAngleNums,
              stepRadius : RandSizeNums, stepAngle : RandAngleNums]

\* the fields initFragments and render's recycling compute alike
SpawnCommon(fs, r, positionRadius) ==
  [selfRadius |-> RandBetween(r.selfRadius, fs.minSelfRadius, fs.maxSelfRadius),
   selfAngle |-> (r.selfAngle * 3600) \div RandDen,
   positionRadius |-> positionRadius,
   positionAngle |-> (r.positionAngle * 3600) \div RandDen,
   stepRadius |-> ((r.stepRadius + RandDen) * fs.stepRadius) \div (2 * RandDen),
   stepAngle |-> ((2 * r.stepAngle - RandDen) * StepAngleMax) \div RandDen]

\* the particle initFragments creates
InitFragment(fs, r) ==
  SpawnCommon(fs, r, RandBetween(r.positionRadius, fs.minPositionRadius,
                                 fs.maxPositionRadius))

\* a recycled particle seeded on the inner ring itself
RecycledAtMinRadius(fs, r) == SpawnCommon(fs, r, fs.minPositionRadius)

\* the particle render creates when it recycles a slot
RecycledFragment(fs, r) ==
  LET selfRadius == RandBetween(r.selfRadius, fs.minSelfRadius, fs.maxSelfRadius)
  IN SpawnCommon(fs, r, fs.minPositionRadius - selfRadius)

\* convertPolarToCartesian, for angles that are multiples of 90 degrees
convertPolarToCartesian(radius, angle, offsetX, offsetY) ==
  LET a == angle % 3600
  IN CASE a = 0 -> [x |-> offsetX, y |-> offsetY - radius]
       [] a = 900 -> [x |-> offsetX + radius, y |-> offsetY]
       [] a = 1800 -> [x |-> offsetX, y |-> offsetY + radius]
       [] a = 2700 -> [x |-> offsetX - radius, y |-> offsetY]

\* drawFragment's result: TRUE when the particle is on the canvas (drawn)
drawFragment(props, cs) ==
  LET center == convertPolarToCartesian(props.positionRadius, props.positionAngle,
                                        cs.width \div 2, cs.height \div 2)
  IN ~(\/ center.x + props.selfRadius < 0
       \/ center.x - props.selfRadius > cs.width
       \/ center.y + props.selfRadius < 0
       \/ center.y - props.selfRadius > cs.height)

\* a particle step that drifts inward
StepFragmentInward(f) ==
  [f EXCEPT !.positionRadius = @ - f.stepRadius, !.selfAngle = @ + f.stepAngle]

\* the interval body's particle step
StepFragment(f) ==
  [f EXCEPT !.positionRadius = @ + f.stepRadius, !.selfAngle = @ + f.stepAngle]

Slots == 1..FragmentsCount

---------------------------------------------------------------------------
(* The animation scheduler *)

Sched ==
  [stepEventId |-> stepEventId, flushEventId |-> flushEventId,
   intervals |-> intervals, rafPending |-> rafPending, rafFrame |-> rafFrame,
   oneShots |-> oneShots]

SetSched(s) ==
  /\ stepEventId' = s.stepEventId
  /\ flushEventId' = s.flushEventId
  /\ intervals' = s.intervals
  /\ rafPending' = s.rafPending
  /\ rafFrame' = s.rafFrame
  /\ oneShots' = s.oneShots

\* the handle requestAnimationFrame returns in scheduler state s
RafId(s) == NewId(s.rafPending \cup s.rafFrame \cup {s.flushEventId})

\* requestAnimationFrame(render)
requestAnimationFrame(s) == [s EXCEPT !.rafPending = @ \cup {RafId(s)}]

\* cancelAnimationFrame(id): a no-op when id is not a pending callback
cancelAnimationFrame(s, id) ==
  [s EXCEPT !.rafPending = @ \ {id}, !.oneShots = @ \ {id}]

\* startStep
startStep(s) ==
  LET s1 == IF s.stepEventId = 0
            THEN LET id == NewId(s.intervals)
                 IN [s EXCEPT !.stepEventId = id, !.intervals = @ \cup {id}]
            ELSE s
  IN IF s1.flushEventId = 0
     THEN [requestAnimationFrame(s1) EXCEPT !.flushEventId = RafId(s1)]
     ELSE s1

\* stopStep forgetting clearInterval: the handle is zeroed, the timer lives on
stopStepNoClear(s) ==
  LET s1 == [s EXCEPT !.stepEventId = 0]
  IN IF s1.flushEventId # 0
     THEN [cancelAnimationFrame(s1, s1.flushEventId) EXCEPT !.flushEventId = 0]
     ELSE s1

\* stopStep
stopStep(s) ==
  LET s1 == IF s.stepEventId # 0
            THEN [s EXCEPT !.intervals = @ \ {s.stepEventId}, !.stepEventId = 0]
            ELSE s
  IN IF s1.flushEventId # 0
     THEN [cancelAnimationFrame(s1, s1.flushEventId) EXCEPT !.flushEventId = 0]
     ELSE s1

\* "Flush canvas": if (flushEventId === 0) requestAnimationFrame(render)
flushCanvas(s) ==
  IF s.flushEventId = 0
  THEN [requestAnimationFrame(s) EXCEPT !.oneShots = @ \cup {RafId(s)}]
  ELSE s

\* all requested callbacks that have not run yet
Callbacks(s) == s.rafPending \cup s.rafFrame

\* the browser is between tasks: no animation frame is being run
Idle == rafFrame = {}

\* the pointer can reach the controls: mounted and laid out with some width
\* (.wrapper is overflow: hidden)
Pointer == Idle /\ ~unmounted /\ clientWidth > 0

\* room for one more requested callback
CallbackRoom(s) == Cardinality(Callbacks(s)) < MaxCallbacks

---------------------------------------------------------------------------
(* Colours *)

\* the initial `colors`: '#333', '#fff', '#fff6'
DefaultColors ==
  [bg |-> [fmt |-> "hex", hue |-> 0, l |-> 20, a |-> 100],
   freq |-> [fmt |-> "hex", hue |-> 0, l |-> 100, a |-> 100],
   fragments |-> [fmt |-> "hex", hue |-> 0, l |-> 100, a |-> 40]]

\* changeColor: keep hue and saturation, set the lightness to 0.3 or 0.85
changeColor(rgbColor, isDarken) ==
  [hue |-> rgbColor, l |-> IF isDarken THEN 30 ELSE 85]

\* padding that repeats the last entry instead of the first
RECURSIVE PadPaletteLast(_)
PadPaletteLast(palette) ==
  IF Len(palette) < 3
  THEN PadPaletteLast(Append(palette, palette[Len(palette)]))
  ELSE palette

\* "Ensure 3 colors": push palette[0] until three entries are present
RECURSIVE PadPalette(_)
PadPalette(palette) ==
  IF Len(palette) < 3 THEN PadPalette(Append(palette, palette[1])) ELSE palette

\* the `colors` object getCoverColor builds from the extracted palette
CoverColors(extracted) ==
  LET palette == PadPalette(extracted)
      c(i, dark, fmt, a) ==
        LET rgb == changeColor(palette[i], dark)
        IN [fmt |-> fmt, hue |-> rgb.hue, l |-> rgb.l, a |-> a]
  IN [bg |-> c(1, TRUE, "rgb", 100),
      freq |-> c(2, FALSE, "rgb", 100),
      fragments |-> c(3, FALSE, "rgba", 40)]

---------------------------------------------------------------------------
(* The state after onMounted -> init(props.audioSrc) *)

Init ==
  \E w \in MountWidths, rnd \in [Slots -> RandDraws] :
    /\ clientWidth = w
    /\ canvasSize = initCanvasSize(w)
    /\ vizplayer = initVizplayer(initCanvasSize(w))
    /\ freqMultiplyRate = initFreqMultiplyRate(initCanvasSize(w))
    /\ lineWidth = initLineWidth(initCanvasSize(w))
    /\ fragmentSize = initFragmentsSize(initCanvasSize(w))
    /\ fragmentsArray =
         [i \in Slots |-> InitFragment(initFragmentsSize(initCanvasSize(w)), rnd[i])]
    /\ audio = [paused |-> TRUE, currentTime |-> Num(0), duration |-> NaN,
                volume |-> InitVolume, muted |-> FALSE]
    /\ ready = FALSE
    /\ events = <<>>
    /\ isContextResumed = FALSE
    /\ angleOffset = 0
    /\ stepEventId = 0
    /\ flushEventId = 0
    /\ isLoading = TRUE
    /\ isPlaying = FALSE
    /\ isMuted = FALSE
    /\ isSeeking = FALSE
    /\ colors = DefaultColors
    /\ timeNow = "00:00"
    /\ timeFull = "00:00"
    /\ barPlayed = ""
    /\ seeker = ""
    /\ barVolumeNow = Pct(Num((InitVolume * 100) \div VolumeOne))
    /\ wrapperBG = DefaultColors.bg
    /\ intervals = {}
    /\ rafPending = {1}
    /\ rafFrame = {}
    /\ unmounted = FALSE
    /\ coverLoaded = FALSE
    /\ lastOp = NoOp
    /\ ticks = 0
    /\ sincePause = FALSE
    /\ contextResumes = 0
    /\ oneShots = {}

---------------------------------------------------------------------------
(* The media element: play(), pause() and what the resource does *)

\* audio.play() on a paused element: paused becomes false, 'play' is queued,
\* then 'playing' or 'waiting' by whether data is available
audioPlay ==
  /\ audio' = [audio EXCEPT !.paused = FALSE]
  /\ events' = events \o <<"play", IF ready THEN "playing" ELSE "waiting">>

\* audio.pause(): on a playing element paused becomes true and 'pause' is
\* queued; on a paused element nothing happens
audioPause ==
  IF audio.paused
  THEN UNCHANGED <<audio, events>>
  ELSE /\ audio' = [audio EXCEPT !.paused = TRUE]
       /\ events' = Append(events, "pause")

\* the events the next call may queue still fit
QueueRoom(n) == Len(events) + n <= MaxQueue

\* playback runs out of data
Stall ==
  /\ Idle /\ ~audio.paused /\ ready /\ QueueRoom(1)
  /\ ready' = FALSE
  /\ events' = Append(events, "waiting")
  /\ UNCHANGED <<audio, clientWidth, isContextResumed, contextResumes,
                 angleOffset, schedVars, isLoading, isPlaying, isMuted,
                 isSeeking, colors, canvasSize, fragmentSize, vizplayer,
                 freqMultiplyRate, lineWidth, fragmentsArray,
                 timeNow, timeFull, barPlayed, seeker, barVolumeNow, wrapperBG,
                 unmounted, coverLoaded, ticks, sincePause>>
  /\ lastOp' = NoOp

\* enough data has arrived to play
DataReady ==
  /\ Idle /\ ~ready /\ QueueRoom(IF audio.paused THEN 1 ELSE 2)
  /\ ready' = TRUE
  /\ events' = events \o (IF audio.paused THEN <<"canplay">>
                          ELSE <<"canplay", "playing">>)
  /\ UNCHANGED <<audio, clientWidth, isContextResumed, contextResumes,
                 angleOffset, schedVars, isLoading, isPlaying, isMuted,
                 isSeeking, colors, canvasSize, fragmentSize, vizplayer,
                 freqMultiplyRate, lineWidth, fragmentsArray,
                 timeNow, timeFull, barPlayed, seeker, barVolumeNow, wrapperBG,
                 unmounted, coverLoaded, ticks, sincePause>>
  /\ lastOp' = NoOp

\* playback reaches the end of the track: the element pauses itself
Ended ==
  /\ Idle /\ ~audio.paused /\ ready /\ QueueRoom(1)
  /\ audioPause
  /\ UNCHANGED <<ready, clientWidth, isContextResumed, contextResumes,
                 angleOffset, schedVars, isLoading, isPlaying, isMuted,
                 isSeeking, colors, canvasSize, fragmentSize, vizplayer,
                 freqMultiplyRate, lineWidth, fragmentsArray,
                 timeNow, timeFull, barPlayed, seeker, barVolumeNow, wrapperBG,
                 unmounted, coverLoaded, ticks, sincePause>>
  /\ lastOp' = NoOp

---------------------------------------------------------------------------
(* Playback: togglePlay and the listeners initAudio registers *)

\* context.resume() guarded by isContextResumed
resumeContext ==
  IF ~isContextResumed
  THEN /\ contextResumes' = contextResumes + 1
       /\ isContextResumed' = TRUE
  ELSE UNCHANGED <<contextResumes, isContextResumed>>

\* a togglePlay that starts a paused track whether it is loading or not
togglePlayIgnoresLoading ==
  /\ Pointer
  /\ IF audio.paused
     THEN /\ QueueRoom(2)
          /\ resumeContext
          /\ audioPlay
     ELSE /\ QueueRoom(1)
          /\ audioPause
          /\ UNCHANGED <<contextResumes, isContextResumed>>
  /\ lastOp' = NoOp
  /\ UNCHANGED <<ready, schedVars, isLoading, isPlaying, isMuted, isSeeking,
                 colors, geomVars, fieldVars, domVars, unmounted, coverLoaded,
                 sincePause>>

\* togglePlay (click on the play button)
togglePlay ==
  /\ Pointer
  /\ IF ~isLoading /\ audio.paused
     THEN /\ QueueRoom(2)
          /\ resumeContext
          /\ audioPlay
     ELSE /\ QueueRoom(1)
          /\ audioPause
          /\ UNCHANGED <<contextResumes, isContextResumed>>
  /\ lastOp' = NoOp
  /\ UNCHANGED <<ready, schedVars, isLoading, isPlaying, isMuted, isSeeking,
                 colors, geomVars, fieldVars, domVars, unmounted, coverLoaded,
                 sincePause>>

\* a 'pause' listener that only updates the flag
onPauseFlagOnly ==
  /\ Idle /\ events # <<>> /\ Head(events) = "pause"
  /\ events' = Tail(events)
  /\ isPlaying' = FALSE
  /\ sincePause' = TRUE
  /\ lastOp' = NoOp
  /\ UNCHANGED <<audio, ready, isContextResumed, contextResumes, schedVars,
                 isLoading, isMuted, isSeeking, colors, geomVars, fieldVars,
                 domVars, unmounted, coverLoaded>>

\* a 'pause' listener that also resets the rotation offset
onPauseResetsAngle ==
  /\ Idle /\ events # <<>> /\ Head(events) = "pause"
  /\ events' = Tail(events)
  /\ isPlaying' = FALSE
  /\ SetSched(stopStep(Sched))
  /\ sincePause' = TRUE
  /\ angleOffset' = 0
  /\ lastOp' = NoOp
  /\ UNCHANGED <<audio, ready, isContextResumed, contextResumes, isLoading,
                 isMuted, isSeeking, colors, geomVars, fragmentsArray, ticks,
                 domVars, unmounted, coverLoaded>>

\* the 'pause' listener
onPause ==
  /\ Idle /\ events # <<>> /\ Head(events) = "pause"
  /\ events' = Tail(events)
  /\ isPlaying' = FALSE
  /\ SetSched(stopStep(Sched))
  /\ sincePause' = TRUE
  /\ lastOp' = NoOp
  /\ UNCHANGED <<audio, ready, isContextResumed, contextResumes, isLoading,
                 isMuted, isSeeking, colors, geomVars, fieldVars, domVars,
                 unmounted, coverLoaded>>

\* the 'play' listener
onPlay ==
  /\ Idle /\ events # <<>> /\ Head(events) = "play"
  /\ flushEventId = 0 => CallbackRoom(Sched)
  /\ events' = Tail(events)
  /\ isPlaying' = TRUE
  /\ SetSched(startStep(Sched))
  /\ sincePause' = FALSE
  /\ lastOp' = NoOp
  /\ UNCHANGED <<audio, ready, isContextResumed, contextResumes, isLoading,
                 isMuted, isSeeking, colors, geomVars, fieldVars, domVars,
                 unmounted, coverLoaded>>

\* the 'waiting' listener
onWaiting ==
  /\ Idle /\ events # <<>> /\ Head(events) = "waiting"
  /\ events' = Tail(events)
  /\ isPlaying' = FALSE
  /\ isLoading' = TRUE
  /\ lastOp' = NoOp
  /\ UNCHANGED <<audio, ready, isContextResumed, contextResumes, schedVars,
                 isMuted, isSeeking, colors, geomVars, fieldVars, domVars,
                 unmounted, coverLoaded, sincePause>>

\* the 'playing' listener
onPlaying ==
  /\ Idle /\ events # <<>> /\ Head(events) = "playing"
  /\ events' = Tail(events)
  /\ isPlaying' = TRUE
  /\ isLoading' = FALSE
  /\ lastOp' = NoOp
  /\ UNCHANGED <<audio, ready, isContextResumed, contextResumes, schedVars,
                 isMuted, isSeeking, colors, geomVars, fieldVars, domVars,
                 unmounted, coverLoaded, sincePause>>

\* the 'canplay' listener
onCanplay ==
  /\ Idle /\ events # <<>> /\ Head(events) = "canplay"
  /\ events' = Tail(events)
  /\ isLoading' = FALSE
  /\ lastOp' = NoOp
  /\ UNCHANGED <<audio, ready, isContextResumed, contextResumes, schedVars,
                 isPlaying, isMuted, isSeeking, colors, geomVars, fieldVars,
                 domVars, unmounted, coverLoaded, sincePause>>

\* onBeforeUnmount, and the unmount that follows it in the same task
onBeforeUnmount ==
  /\ Idle /\ ~unmounted
  /\ QueueRoom(1)
  /\ audioPause
  /\ unmounted' = TRUE
  /\ lastOp' = NoOp
  /\ UNCHANGED <<ready, isContextResumed, contextResumes, schedVars, isLoading,
                 isPlaying, isMuted, isSeeking, colors, geomVars, fieldVars,
                 domVars, coverLoaded, sincePause>>

---------------------------------------------------------------------------
(* The two loops: the interval body and render *)

\* the setInterval callback of startStep: one logical tick
stepCallback ==
  /\ Idle /\ intervals # {} /\ ticks < MaxTicks
  /\ angleOffset' = angleOffset + ANGLE_STEP
  /\ fragmentsArray' = [i \in Slots |-> StepFragment(fragmentsArray[i])]
  /\ ticks' = ticks + 1
  /\ lastOp' = NoOp
  /\ UNCHANGED <<audio, mediaVars, flagVars, schedVars, isMuted, isSeeking,
                 colors, geomVars, domVars, unmounted, coverLoaded,
                 sincePause>>

\* the browser starts a display frame: the callbacks requested so far are
\* the ones this frame runs
animationFrame ==
  /\ Idle /\ rafPending # {}
  /\ rafFrame' = rafPending
  /\ rafPending' = {}
  /\ UNCHANGED <<audio, mediaVars, flagVars, stepEventId, flushEventId,
                 intervals, oneShots, isMuted, isSeeking, colors, geomVars,
                 fieldVars, domVars, unmounted, coverLoaded, sincePause>>
  /\ lastOp' = NoOp

\* the draws of Math.random() render takes for a recycled particle
RecycleDraws == {r \in RandDraws : r.positionRadius = 0}

\* the slots whose particle drawFragment reports off the canvas
Outside == {i \in Slots : ~drawFragment(fragmentsArray[i], canvasSize)}

\* a render that never re-schedules
renderNoReschedule(s) == s

\* render's re-schedule: if (flushEventId !== 0) requestAnimationFrame(render)
renderReschedule(s) ==
  IF s.flushEventId # 0 THEN requestAnimationFrame(s) ELSE s

\* render: one redraw pass, run as a callback of the current frame.  After
\* unmount the template refs are null: the pass throws at barPlayed.value!
\* before it updates the progress display or re-schedules.
render ==
  /\ rafFrame # {}
  /\ \E rnd \in [Outside -> RecycleDraws] :
       fragmentsArray' =
         [i \in Slots |-> IF i \in Outside
                          THEN RecycledFragment(fragmentSize, rnd[i])
                          ELSE fragmentsArray[i]]
  /\ LET ran == [Sched EXCEPT !.rafFrame = @ \ {Min(rafFrame)},
                              !.oneShots = @ \ {Min(rafFrame)}]
         playedPercent == NumPercent(audio.currentTime, audio.duration)
     IN IF unmounted
        THEN /\ SetSched(ran)
             /\ lastOp' = NoOp
             /\ UNCHANGED <<barPlayed, timeNow, seeker>>
        ELSE /\ SetSched(renderReschedule(ran))
             /\ lastOp' = NoOp
             /\ barPlayed' = setStyle(barPlayed, playedPercent)
             /\ IF ~isSeeking
                THEN /\ timeNow' = parseSecondsToTime(audio.currentTime)
                     /\ seeker' = setStyle(seeker, playedPercent)
                ELSE UNCHANGED <<timeNow, seeker>>
  /\ UNCHANGED <<audio, mediaVars, flagVars, isMuted, isSeeking, colors,
                 geomVars, angleOffset, ticks, timeFull, barVolumeNow,
                 wrapperBG, unmounted, coverLoaded, sincePause>>

---------------------------------------------------------------------------
(* One-shot redraw triggers *)

\* a ResizeObserver callback that re-sizes the canvas and leaves the
\* particle sizing bounds as they were
onResizeCanvasOnly ==
  /\ Idle /\ ~unmounted
  /\ \E w \in ResizeWidths :
       /\ clientWidth' = w
       /\ IF w # 0
          THEN /\ flushEventId = 0 => CallbackRoom(Sched)
               /\ canvasSize' = initCanvasSize(w)
               /\ vizplayer' = initVizplayer(initCanvasSize(w))
               /\ freqMultiplyRate' = initFreqMultiplyRate(initCanvasSize(w))
               /\ lineWidth' = initLineWidth(initCanvasSize(w))
               /\ fragmentSize' = fragmentSize
               /\ SetSched(flushCanvas(Sched))
          ELSE UNCHANGED <<canvasSize, vizplayer, freqMultiplyRate, lineWidth,
                           fragmentSize, schedVars>>
  /\ lastOp' = NoOp
  /\ UNCHANGED <<audio, mediaVars, flagVars, isMuted, isSeeking, colors,
                 fieldVars, domVars, unmounted, coverLoaded, sincePause>>

\* the ResizeObserver callback, with the container's new width
onResize ==
  /\ Idle /\ ~unmounted
  /\ \E w \in ResizeWidths :
       /\ clientWidth' = w
       /\ IF w # 0
          THEN /\ flushEventId = 0 => CallbackRoom(Sched)
               /\ canvasSize' = initCanvasSize(w)
               /\ vizplayer' = initVizplayer(initCanvasSize(w))
               /\ freqMultiplyRate' = initFreqMultiplyRate(initCanvasSize(w))
               /\ lineWidth' = initLineWidth(initCanvasSize(w))
               /\ fragmentSize' = initFragmentsSize(initCanvasSize(w))
               /\ SetSched(flushCanvas(Sched))
          ELSE UNCHANGED <<canvasSize, vizplayer, freqMultiplyRate, lineWidth,
                           fragmentSize, schedVars>>
  /\ lastOp' = NoOp
  /\ UNCHANGED <<audio, mediaVars, flagVars, isMuted, isSeeking, colors,
                 fieldVars, domVars, unmounted, coverLoaded, sincePause>>

\* getCoverColor: the cover image's load event (the image loads once)
getCoverColor ==
  /\ Idle /\ ~unmounted /\ ~coverLoaded
  /\ flushEventId = 0 => CallbackRoom(Sched)
  /\ \E palette \in Palettes :
       /\ colors' = CoverColors(palette)
       /\ wrapperBG' = CoverColors(palette).bg
  /\ SetSched(flushCanvas(Sched))
  /\ coverLoaded' = TRUE
  /\ lastOp' = NoOp
  /\ UNCHANGED <<audio, mediaVars, flagVars, isMuted, isSeeking, geomVars,
                 fieldVars, timeNow, timeFull, barPlayed, seeker, barVolumeNow,
                 unmounted, sincePause>>

NextSched ==
  \/ togglePlay \/ Stall \/ DataReady \/ Ended
  \/ onPause \/ onPlay \/ onWaiting \/ onPlaying \/ onCanplay
  \/ onBeforeUnmount
  \/ stepCallback \/ animationFrame \/ render
  \/ onResize \/ getCoverColor

SpecSched == Init /\ [][NextSched]_vars

\* the redraw chain alone: every handler that reads or writes the redraw
\* handle or requests a callback, without the interval body, which writes
\* the rotation offset and the particles only
NextRedraw ==
  \/ togglePlay \/ Stall \/ DataReady \/ Ended
  \/ onPause \/ onPlay \/ onWaiting \/ onPlaying \/ onCanplay
  \/ onBeforeUnmount
  \/ animationFrame \/ render
  \/ onResize \/ getCoverColor

\* the redraw chain under fair delivery of display-refresh ticks: the
\* browser starts a frame when callbacks are requested, and runs every
\* callback of a frame
SpecRedrawFair ==
  Init /\ [][NextRedraw]_vars /\ WF_vars(animationFrame) /\ WF_vars(render)

---------------------------------------------------------------------------
(* Seek, volume and mute *)

\* the state setVolume and toggleMute work on
Ctl == [audio |-> audio, isMuted |-> isMuted, barVolumeNow |-> barVolumeNow]

SetCtl(c) ==
  /\ audio' = c.audio
  /\ isMuted' = c.isMuted
  /\ barVolumeNow' = c.barVolumeNow

\* toggleMute flipping the element only
toggleMuteAudioOnly(c) == [c EXCEPT !.audio.muted = ~c.audio.muted]

\* toggleMute: audio.muted = !audio.muted; isMuted.value = audio.muted
toggleMute(c) ==
  LET a == [c.audio EXCEPT !.muted = ~c.audio.muted]
  IN [c EXCEPT !.audio = a, !.isMuted = a.muted]

\* setVolume toggling on every negative value, muted or not
setVolumeToggleAlways(c, volumePercent) ==
  IF volumePercent < 0
  THEN toggleMute(c)
  ELSE LET v == IF volumePercent > VolumeOne THEN VolumeOne ELSE volumePercent
           c1 == IF c.isMuted THEN toggleMute(c) ELSE c
       IN [c1 EXCEPT !.audio.volume = v,
                     !.barVolumeNow = Pct(Num((v * 100) \div VolumeOne))]

\* setVolume without the saturation at 1
setVolumeNoCap(c, volumePercent) ==
  IF volumePercent < 0
  THEN IF ~c.isMuted THEN toggleMute(c) ELSE c
  ELSE LET c1 == IF c.isMuted THEN toggleMute(c) ELSE c
       IN [c1 EXCEPT !.audio.volume = volumePercent,
                     !.barVolumeNow =
                        Pct(Num((volumePercent * 100) \div VolumeOne))]

\* setVolume applying the volume without un-muting
setVolumeKeepsMute(c, volumePercent) ==
  IF volumePercent < 0
  THEN IF ~c.isMuted THEN toggleMute(c) ELSE c
  ELSE LET v == IF volumePercent > VolumeOne THEN VolumeOne ELSE volumePercent
       IN [c EXCEPT !.audio.volume = v,
                    !.barVolumeNow = Pct(Num((v * 100) \div VolumeOne))]

\* setVolume(volumePercent), volumePercent in tenths
setVolume(c, volumePercent) ==
  IF volumePercent < 0
  THEN IF ~c.isMuted THEN toggleMute(c) ELSE c
  ELSE LET v == IF volumePercent > VolumeOne THEN VolumeOne ELSE volumePercent
           c1 == IF c.isMuted THEN toggleMute(c) ELSE c
       IN [c1 EXCEPT !.audio.volume = v,
                     !.barVolumeNow = Pct(Num((v * 100) \div VolumeOne))]

\* setProgress without the upper clamp
ProgressTargetNoUpper(a, time) ==
  IF NumLt(time, Num(0)) THEN Num(0) ELSE time

\* the value setProgress(time) assigns to audio.currentTime
ProgressTarget(a, time) ==
  IF NumLt(time, Num(0)) THEN Num(0)
  ELSE IF NumGt(time, a.duration) THEN a.duration
  ELSE time

\* setProgress(time): the assignment audio.currentTime = NaN throws a
\* TypeError and leaves the position as it was
setProgress(a, time) ==
  IF isNaN(ProgressTarget(a, time)) THEN a
  ELSE [a EXCEPT !.currentTime = ProgressTarget(a, time)]

\* isNaN(audio.duration) ? 0 : audio.duration
DurationOrZero(a) == IF isNaN(a.duration) THEN Num(0) ELSE a.duration

\* the track's metadata arrives: duration becomes known and the
\* 'durationchange' listener writes the full-time label
onDurationChange ==
  /\ Idle /\ isNaN(audio.duration)
  /\ \E d \in KnownDurations :
       /\ audio' = [audio EXCEPT !.duration = Num(d)]
       /\ timeFull' = parseSecondsToTime(Num(d))
  /\ lastOp' = NoOp
  /\ UNCHANGED <<mediaVars, flagVars, schedVars, isMuted, isSeeking, colors,
                 geomVars, fieldVars, timeNow, barPlayed, seeker, barVolumeNow,
                 wrapperBG, unmounted, coverLoaded, sincePause>>

\* startSeeking (mouseenter on the progress control)
startSeeking ==
  /\ Pointer /\ ~isSeeking
  /\ isSeeking' = TRUE
  /\ lastOp' = Op("startSeeking")
  /\ UNCHANGED <<audio, mediaVars, flagVars, schedVars, isMuted, colors,
                 geomVars, fieldVars, domVars, unmounted, coverLoaded,
                 sincePause>>

\* endSeeking (mouseleave): seeker homing
endSeeking ==
  /\ Pointer /\ isSeeking
  /\ isSeeking' = FALSE
  /\ LET playedPercent == NumPercent(audio.currentTime, audio.duration)
     IN /\ barPlayed' = setStyle(barPlayed, playedPercent)
        /\ timeNow' = parseSecondsToTime(audio.currentTime)
        /\ seeker' = setStyle(seeker, playedPercent)
  /\ lastOp' = Op("endSeeking")
  /\ UNCHANGED <<audio, mediaVars, flagVars, schedVars, isMuted, colors,
                 geomVars, fieldVars, timeFull, barVolumeNow, wrapperBG,
                 unmounted, coverLoaded, sincePause>>

\* a seekProgress that also moves the track to the previewed time
seekProgressCommits ==
  /\ Pointer /\ isSeeking
  /\ \E offsetX \in OffsetXs :
       LET seekTime == NumScale(DurationOrZero(audio), offsetX, Layout.barFull)
           seekPercent100 == Num((offsetX * 100) \div Layout.barFull)
       IN /\ timeNow' = parseSecondsToTime(seekTime)
          /\ barPlayed' = setStyle(barPlayed, seekPercent100)
          /\ seeker' = setStyle(seeker, seekPercent100)
          /\ audio' = [audio EXCEPT !.currentTime = seekTime]
          /\ lastOp' = [Op("seekProgress") EXCEPT !.offsetX = <<offsetX>>]
  /\ UNCHANGED <<mediaVars, flagVars, schedVars, isMuted, isSeeking, colors,
                 geomVars, fieldVars, timeFull, barVolumeNow, wrapperBG,
                 unmounted, coverLoaded, sincePause>>

\* seekProgress (mousemove over the progress control)
seekProgress ==
  /\ Pointer /\ isSeeking
  /\ \E offsetX \in OffsetXs :
       LET seekTime == NumScale(DurationOrZero(audio), offsetX, Layout.barFull)
           seekPercent100 == Num((offsetX * 100) \div Layout.barFull)
       IN /\ timeNow' = parseSecondsToTime(seekTime)
          /\ barPlayed' = setStyle(barPlayed, seekPercent100)
          /\ seeker' = setStyle(seeker, seekPercent100)
          /\ lastOp' = [Op("seekProgress") EXCEPT !.offsetX = <<offsetX>>]
  /\ UNCHANGED <<audio, mediaVars, flagVars, schedVars, isMuted, isSeeking,
                 colors, geomVars, fieldVars, timeFull, barVolumeNow,
                 wrapperBG, unmounted, coverLoaded, sincePause>>

\* jumpProgress (click on the progress control)
jumpProgress ==
  /\ Pointer /\ isSeeking
  /\ \E offsetX \in OffsetXs :
       LET time == NumScale(DurationOrZero(audio), offsetX, Layout.barFull)
       IN /\ audio' = setProgress(audio, time)
          /\ lastOp' = [Op("jumpProgress") EXCEPT
                          !.offsetX = <<offsetX>>,
                          !.seekReq = <<time>>,
                          !.seekArg = <<ProgressTarget(audio, time)>>,
                          !.threw = isNaN(ProgressTarget(audio, time))]
  /\ UNCHANGED <<mediaVars, flagVars, schedVars, isMuted, isSeeking, colors,
                 geomVars, fieldVars, domVars, unmounted, coverLoaded,
                 sincePause>>

\* toggleMute (click on the mute button)
onToggleMute ==
  /\ Pointer
  /\ SetCtl(toggleMute(Ctl))
  /\ lastOp' = Op("toggleMute")
  /\ UNCHANGED <<mediaVars, flagVars, schedVars, isSeeking, colors, geomVars,
                 fieldVars, timeNow, timeFull, barPlayed, seeker, wrapperBG,
                 unmounted, coverLoaded, sincePause>>

\* jumpVolume (click on the volume bar)
jumpVolume ==
  /\ Pointer
  /\ \E offsetY \in OffsetYs :
       LET volumePercent == ((Layout.barVolumeFull - offsetY) * VolumeOne)
                              \div Layout.barVolumeFull
       IN /\ SetCtl(setVolume(Ctl, volumePercent))
          /\ lastOp' = [Op("jumpVolume") EXCEPT !.volArg = <<volumePercent>>,
                                                !.wasMuted = <<isMuted>>]
  /\ UNCHANGED <<mediaVars, flagVars, schedVars, isSeeking, colors, geomVars,
                 fieldVars, timeNow, timeFull, barPlayed, seeker, wrapperBG,
                 unmounted, coverLoaded, sincePause>>

\* scrollEvent (wheel over the wrapper): deltaX seeks, deltaY changes the
\* volume; when the seek throws the volume part is not reached
scrollEvent ==
  /\ Pointer
  /\ \E qx \in WheelXQuarters, ty \in WheelYTenths :
       LET deltaX == (qx * canvasSize.width) \div 4
           deltaY == (ty * canvasSize.height) \div 10
           time == NumSub(audio.currentTime,
                          NumScale(audio.duration, deltaX, canvasSize.width))
           threw == deltaX # 0 /\ isNaN(ProgressTarget(audio, time))
           a1 == IF deltaX # 0 THEN setProgress(audio, time) ELSE audio
           c1 == [Ctl EXCEPT !.audio = a1]
           volumePercent == audio.volume
                              - (deltaY * VolumeOne) \div canvasSize.height
           doVolume == deltaY # 0 /\ ~threw
       IN /\ deltaX # 0 \/ deltaY # 0
          /\ SetCtl(IF doVolume THEN setVolume(c1, volumePercent) ELSE c1)
          /\ lastOp' = [Op("scrollEvent") EXCEPT
                          !.seekReq = IF deltaX # 0 THEN <<time>> ELSE <<>>,
                          !.seekArg = IF deltaX # 0
                                      THEN <<ProgressTarget(audio, time)>>
                                      ELSE <<>>,
                          !.volArg = IF doVolume THEN <<volumePercent>> ELSE <<>>,
                          !.wasMuted = IF doVolume THEN <<isMuted>> ELSE <<>>,
                          !.threw = threw]
  /\ UNCHANGED <<mediaVars, flagVars, schedVars, isSeeking, colors, geomVars,
                 fieldVars, timeNow, timeFull, barPlayed, seeker, wrapperBG,
                 unmounted, coverLoaded, sincePause>>

NextCtl ==
  \/ onDurationChange
  \/ startSeeking \/ endSeeking \/ seekProgress \/ jumpProgress
  \/ onToggleMute \/ jumpVolume \/ scrollEvent

SpecCtl == Init /\ [][NextCtl]_vars

\* the progress control together with the redraw passes that update the
\* same labels: the mount's redraw and the one-shot redraws after a resize
NextSeek ==
  \/ onDurationChange
  \/ startSeeking \/ endSeeking \/ seekProgress \/ jumpProgress
  \/ animationFrame \/ render \/ onResize

SpecSeek == Init /\ [][NextSeek]_vars

Next == NextSched \/ NextCtl

Spec == Init /\ [][Next]_vars

---------------------------------------------------------------------------
(* Properties of the animation scheduler (SpecSched) *)

\* redraw callbacks that will re-schedule themselves when they run
Chains(s) == IF s.flushEventId # 0 THEN Callbacks(s) ELSE {}

\* C1: in every reachable state at most one pending redraw callback exists
\* whose pass will schedule a further pass (one self-rescheduling chain).
OneRedrawChain == Cardinality(Chains(Sched)) <= 1

\* C2: at most one logical-step interval exists, and it is the one the step
\* handle records: the handle is zero exactly when no interval is active.
StepTimerIsHandle ==
  /\ Cardinality(intervals) <= 1
  /\ intervals = IF stepEventId = 0 THEN {} ELSE {stepEventId}

\* C2 witness: a play transition created the interval and it has ticked
StepTimerActive == stepEventId # 0 /\ intervals = {stepEventId} /\ ticks > 0

\* C3: when a play event is about to be handled, handling it twice leaves
\* exactly one stepper timer and exactly one redraw chain, the same
\* scheduler state as handling it once; when a pause event is about to be
\* handled, stopping twice gives the same state as stopping once.
StartStopIdempotent ==
  /\ (Idle /\ events # <<>> /\ Head(events) = "play") =>
       LET once == startStep(Sched)
           twice == startStep(once)
       IN /\ twice = once
          /\ Cardinality(twice.intervals) = 1
          /\ Cardinality(Chains(twice)) = 1
  /\ (Idle /\ events # <<>> /\ Head(events) = "pause") =>
       stopStep(stopStep(Sched)) = stopStep(Sched)

\* a redraw pass recycled slot i in this step
Recycled(i) ==
  /\ rafFrame # {}
  /\ i \in Outside
  /\ \E r \in RecycleDraws : fragmentsArray'[i] = RecycledFragment(fragmentSize, r)

\* the state part of C4: stopped between a pause event and the next play event
StoppedSincePause ==
  sincePause => /\ ~isPlaying
                /\ stepEventId = 0 /\ flushEventId = 0
                /\ intervals = {}

\* C4 as stated: after the pause event has been handled and until the next
\* play event is handled, playing is false, both handles are zero, and the
\* rotation offset and every particle's positionRadius and selfAngle stay
\* constant.
PausedFreezesField ==
  /\ []StoppedSincePause
  /\ [][(sincePause /\ sincePause') =>
          /\ angleOffset' = angleOffset
          /\ \A i \in Slots :
               /\ fragmentsArray'[i].positionRadius = fragmentsArray[i].positionRadius
               /\ fragmentsArray'[i].selfAngle = fragmentsArray[i].selfAngle]_vars

\* C4 amended: after the pause event has been handled and until the next
\* play event is handled, playing is false, both handles are zero and no
\* logical tick occurs: the rotation offset stays constant, and a particle
\* changes only by being recycled in a redraw pass.
PausedNoLogicalTick ==
  /\ []StoppedSincePause
  /\ [][(sincePause /\ sincePause') =>
          /\ angleOffset' = angleOffset
          /\ ticks' = ticks
          /\ \A i \in Slots :
               fragmentsArray'[i] = fragmentsArray[i] \/ Recycled(i)]_vars

\* C4 witness: the track was playing and ticking, the user toggled, and the
\* pause event has been handled
PausedAfterPlaying ==
  sincePause /\ isContextResumed /\ ticks > 0 /\ audio.paused /\ ~unmounted

\* C5: on unmount the stepper timer and the redraw chain are cancelled and
\* the track is paused; once the unmount handler has completed, no logical
\* tick and no redraw pass is executed again.
UnmountStopsEverything ==
  /\ [](unmounted => audio.paused)
  /\ [][unmounted =>
          /\ ticks' = ticks
          /\ ~(rafFrame # {} /\ rafFrame' # rafFrame)]_vars

---------------------------------------------------------------------------
(* Properties of the playback controller (SpecCtl) *)

\* the last handler called setVolume(v)
CalledSetVolume(op) == op.volArg # <<>>

\* C6: setVolume(v) with v < 0 leaves muted true, whatever it was before,
\* and leaves the track volume and the volume indicator unchanged.
NegativeVolumeMutes ==
  [][(CalledSetVolume(lastOp') /\ lastOp'.volArg[1] < 0) =>
       /\ audio'.muted /\ isMuted'
       /\ audio'.volume = audio.volume
       /\ barVolumeNow' = barVolumeNow]_vars

\* C6 witness: setVolume ran with a negative value and the track is muted
MutedByNegativeVolume ==
  CalledSetVolume(lastOp) /\ lastOp.volArg[1] < 0 /\ audio.muted

\* C7: the track volume lies in [0,1], the volume indicator's fill is
\* volume x 100%, and a requested value above 1 sets the volume to exactly 1.
VolumeInRangeAndShown ==
  /\ audio.volume >= 0 /\ audio.volume <= VolumeOne
  /\ barVolumeNow = Pct(Num((audio.volume * 100) \div VolumeOne))
  /\ (CalledSetVolume(lastOp) /\ lastOp.volArg[1] > VolumeOne) =>
       audio.volume = VolumeOne

\* C7 witness: a value above 1 was requested and the volume is 1
VolumeSaturated ==
  /\ CalledSetVolume(lastOp) /\ lastOp.volArg[1] > VolumeOne
  /\ audio.volume = VolumeOne /\ barVolumeNow = "100%"

\* C8: the UI muted flag equals the track's muted attribute.
MutedInLockStep == isMuted = audio.muted

\* C8 witness: toggleMute has just muted the track
MutedByToggle == lastOp.name = "toggleMute" /\ isMuted /\ audio.muted

\* the handlers that do time-fraction math
TimeMathOps == {"seekProgress", "jumpProgress", "scrollEvent", "endSeeking"}

\* C9: while the duration is unresolved (NaN), no handler doing
\* time-fraction math fails, and the playback position it assigns, if any,
\* is the finite number 0.
UnresolvedDurationIsZero ==
  (isNaN(audio.duration) /\ lastOp.name \in TimeMathOps) =>
    /\ ~lastOp.threw
    /\ lastOp.seekArg # <<>> => lastOp.seekArg[1] = Num(0)

\* C10: with a known duration every committed seek assigns a position in
\* [0, duration]: a target below 0 becomes 0, a target above duration
\* becomes duration.
CommittedSeekClamped ==
  (~isNaN(audio.duration) /\ lastOp.seekArg # <<>>) =>
    LET req == lastOp.seekReq[1]
        set == lastOp.seekArg[1]
    IN /\ ~lastOp.threw /\ ~isNaN(set)
       /\ set.v >= 0 /\ set.v <= audio.duration.v
       /\ audio.currentTime = set
       /\ NumLt(req, Num(0)) => set = Num(0)
       /\ NumGt(req, audio.duration) => set = audio.duration
       /\ (~NumLt(req, Num(0)) /\ ~NumGt(req, audio.duration)) => set = req

\* C10 witness: a seek beyond the end was committed and landed on the end
SeekPastEndClamped ==
  /\ ~isNaN(audio.duration) /\ lastOp.seekArg # <<>>
  /\ NumGt(lastOp.seekReq[1], audio.duration)
  /\ audio.currentTime = audio.duration

\* the preview gestures of the progress control, and all its gestures
PreviewOps == {"startSeeking", "seekProgress", "endSeeking"}
ProgressOps == PreviewOps \cup {"jumpProgress"}

\* the pointer offset limited to the track [0, barFull.clientWidth]
OnTrack(offsetX) ==
  IF offsetX < 0 THEN 0
  ELSE IF offsetX > Layout.barFull THEN Layout.barFull
  ELSE offsetX

\* C11: with a known duration, after a seek preview the played bar and the
\* marker show the fraction pointerX / trackWidth limited to [0,1], and the
\* time label shows that fraction of the duration (track 200px, pointer at
\* 50px, duration 120 s: 00:30).
SeekPreviewClamped ==
  (lastOp.name = "seekProgress" /\ ~isNaN(audio.duration)) =>
    LET x == OnTrack(lastOp.offsetX[1])
        fraction100 == Num((x * 100) \div Layout.barFull)
    IN /\ barPlayed = Pct(fraction100)
       /\ seeker = Pct(fraction100)
       /\ timeNow =
            parseSecondsToTime(Num((x * audio.duration.v) \div Layout.barFull))

\* C12: startSeeking, seekProgress and endSeeking leave the track (position,
\* volume, muted, paused), the muted and playing flags, the queued track
\* events and the animation handles and timers as they were; a progress
\* gesture that changes the playback position is the click (jumpProgress).
PreviewLeavesTrackAlone ==
  [][/\ (lastOp'.name \in PreviewOps) =>
           (/\ audio' = audio
            /\ isMuted' = isMuted /\ isPlaying' = isPlaying
            /\ events' = events
            /\ UNCHANGED schedVars)
     /\ (lastOp'.name \in ProgressOps
           /\ audio'.currentTime # audio.currentTime) =>
          (lastOp'.name = "jumpProgress")]_vars

\* C12 witness: a preview shows a time other than the track's position,
\* which a committed seek had moved away from the start before
PreviewAwayFromPosition ==
  /\ lastOp.name = "seekProgress"
  /\ audio.currentTime # Num(0)
  /\ timeNow # parseSecondsToTime(audio.currentTime)

---------------------------------------------------------------------------
(* Properties of the palette and the particle field (SpecSched) *)

\* the palette entry a role takes: entry i, or entry 0 when i is missing
\* (sequences count from 1)
RoleEntry(palette, i) == IF i <= Len(palette) THEN palette[i] ELSE palette[1]

\* the three role colours the claim gives for a palette
RoleColors(palette) ==
  LET role(i, dark, fmt, a) ==
        [fmt |-> fmt, hue |-> changeColor(RoleEntry(palette, i), dark).hue,
         l |-> changeColor(RoleEntry(palette, i), dark).l, a |-> a]
  IN [bg |-> role(1, TRUE, "rgb", 100),
      freq |-> role(2, FALSE, "rgb", 100),
      fragments |-> role(3, FALSE, "rgba", 40)]

\* C13: for every palette of length >= 1 the cover's load defines all three
\* role colours, background from entry 0, spectrum from entry 1, particles
\* from entry 2, a missing entry replaced by entry 0; and the three colours
\* are replaced together: in every state, also between the passes of a
\* frame, they are all defaults or all from one palette.
PaletteRolesTogether ==
  /\ [](colors = DefaultColors \/ \E p \in Palettes : colors = RoleColors(p))
  /\ [][(coverLoaded' /\ ~coverLoaded) =>
          \E p \in Palettes : colors' = RoleColors(p)]_vars

\* C13 witness: a palette of one colour has been applied: one hue in all
\* three roles, dark for the background and light for the other two
OneColourPalette ==
  /\ coverLoaded /\ colors = RoleColors(<<1>>)
  /\ colors.bg.hue = colors.freq.hue /\ colors.bg.hue = colors.fragments.hue
  /\ colors.bg.l < colors.freq.l /\ colors.freq.l = colors.fragments.l

\* a redraw pass runs in this step
RenderPass == rafFrame # {} /\ rafFrame' # rafFrame

\* the particle's bounding box (centre +/- selfRadius) and the canvas
\* rectangle [0,width] x [0,height] have no point in common
BoxOffCanvas(f, cs) ==
  LET c == convertPolarToCartesian(f.positionRadius, f.positionAngle,
                                   cs.width \div 2, cs.height \div 2)
      left == c.x - f.selfRadius
      right == c.x + f.selfRadius
      top == c.y - f.selfRadius
      bottom == c.y + f.selfRadius
  IN right < 0 \/ left > cs.width \/ bottom < 0 \/ top > cs.height

\* C14: in every redraw pass a particle whose bounding box lies outside the
\* canvas is overwritten in its own slot by a fresh particle seeded at
\* positionRadius = minPositionRadius - its own selfRadius, which is on the
\* canvas and so is drawn; a particle on the canvas is kept as it is; and the
\* slots stay the configured ones.
RecyclingInvariant ==
  /\ [](DOMAIN fragmentsArray = Slots)
  /\ [][RenderPass =>
          \A i \in Slots :
            IF BoxOffCanvas(fragmentsArray[i], canvasSize)
            THEN /\ fragmentsArray'[i].positionRadius =
                      fragmentSize.minPositionRadius - fragmentsArray'[i].selfRadius
                 /\ fragmentsArray'[i].selfRadius >= fragmentSize.minSelfRadius
                 /\ fragmentsArray'[i].selfRadius <= fragmentSize.maxSelfRadius
                 /\ ~BoxOffCanvas(fragmentsArray'[i], canvasSize)
            ELSE fragmentsArray'[i] = fragmentsArray[i]]_vars

\* C14 witness: a slot holds a particle a redraw pass has just spawned: it
\* sits selfRadius inside the inner ring (initFragments never places one
\* below the ring) and no tick has moved it since the container shrank
FreshOnInnerRing ==
  \E i \in Slots :
    /\ fragmentsArray[i].selfRadius > 0
    /\ fragmentsArray[i].positionRadius =
         fragmentSize.minPositionRadius - fragmentsArray[i].selfRadius
    /\ ~BoxOffCanvas(fragmentsArray[i], canvasSize)

\* C15: a particle's fields change only in a logical tick, which adds the
\* particle's own stepRadius >= 0 to positionRadius (and stepAngle to
\* selfAngle), or in a redraw pass that recycles it; so positionRadius never
\* decreases between recyclings, and resize, palette and redraw passes
\* without recycling change no particle field.
OutwardDriftOnly ==
  [][\A i \in Slots :
       \/ fragmentsArray'[i] = fragmentsArray[i]
       \/ /\ ticks' = ticks + 1
          /\ fragmentsArray[i].stepRadius >= 0
          /\ fragmentsArray'[i] =
               [fragmentsArray[i] EXCEPT
                  !.positionRadius = @ + fragmentsArray[i].stepRadius,
                  !.selfAngle = @ + fragmentsArray[i].stepAngle]
       \/ RenderPass /\ Recycled(i)]_vars

\* C15 witness: every tick so far has moved a particle outward from the
\* inner ring by its stepRadius > 0
DriftedOutward ==
  \E i \in Slots :
    /\ ticks > 0 /\ fragmentsArray[i].stepRadius > 0
    /\ fragmentsArray[i].positionRadius =
         fragmentSize.minPositionRadius + ticks * fragmentsArray[i].stepRadius

---------------------------------------------------------------------------
(* Properties of playback and of the two loops (SpecSched) *)

\* playback start is requested in this step: audio.play() on the paused track
StartRequested == audio.paused /\ ~audio'.paused

\* C16: context.resume() is called at most once, in the step that first
\* requests playback start; playback start is requested only when the track
\* is paused and not loading, so never while loading is true.
ResumedOnceAtFirstStart ==
  /\ [](contextResumes <= 1 /\ (isContextResumed <=> contextResumes = 1))
  /\ [][StartRequested =>
          /\ ~isLoading
          /\ contextResumes' = 1
          /\ contextResumes = 0 <=> ~isContextResumed]_vars
  /\ [][contextResumes' # contextResumes => StartRequested]_vars

\* C16 witness: playback start has been requested a second time (a pause
\* event was handled, no play event since, the track is not paused) and the
\* context has been resumed once
SecondStartResumedOnce ==
  sincePause /\ ~audio.paused /\ contextResumes = 1 /\ ~isLoading

\* C17: whenever flushEventId is non-zero it is the handle of a redraw
\* callback that is pending (requested and not yet run), so that stopStep's
\* cancelAnimationFrame(flushEventId) removes the chain's callback.
RedrawHandleIsPending ==
  flushEventId # 0 => flushEventId \in Callbacks(Sched)

\* C18: the logical-stepper timer is active if and only if the playing flag
\* is true, and both animation handles are zero while it is false.
SteppingIffPlaying ==
  /\ isPlaying <=> intervals # {}
  /\ ~isPlaying => (stepEventId = 0 /\ flushEventId = 0)

\* C19: the redraw pass a one-shot trigger (resize, palette) requested while
\* no continuous loop was active does not schedule a further pass, whatever
\* was handled before it runs; and while the continuous loop is active a
\* one-shot trigger requests no callback.
OneShotStaysSingle ==
  [][/\ (RenderPass /\ Min(rafFrame) \in oneShots) => rafPending' = rafPending
     /\ (flushEventId # 0) => (oneShots' \subseteq oneShots)]_vars

\* the continuous loop is active: a play event has been handled and no pause
\* event since (the interval startStep created is still there)
LoopActive == stepEventId # 0 /\ ~sincePause

\* C20: while the continuous loop is active and the component is mounted, a
\* redraw callback is always requested (each pass re-schedules itself); and
\* under fair delivery of display-refresh ticks, if the loop stays active
\* for ever, redraw passes run again and again.
RedrawChainRecurs ==
  /\ []((LoopActive /\ ~unmounted) => Callbacks(Sched) # {})
  /\ (<>[](LoopActive /\ ~unmounted) => []<><<render>>_vars)

\* C20 witness: the loop is active and past its first pass: the requested
\* callback is one a redraw pass requested, not the one startStep recorded
ChainPastFirstPass ==
  /\ LoopActive /\ ~unmounted /\ Idle
  /\ rafPending # {} /\ flushEventId \notin rafPending

\* C21: the rotation offset equals ANGLE_STEP (0.3 degrees) times the number
\* of logical ticks executed since mount; it changes only in a tick, by
\* ANGLE_STEP, and is never reset.
AngleOffsetCountsTicks ==
  /\ [](angleOffset = ANGLE_STEP * ticks)
  /\ [][angleOffset' # angleOffset =>
          (ticks' = ticks + 1 /\ angleOffset' = angleOffset + ANGLE_STEP)]_vars

\* C21 witness: the track has ticked and been paused, and the offset is
\* still the one the ticks accumulated
OffsetKeptOverPause ==
  sincePause /\ ticks > 0 /\ stepEventId = 0 /\ angleOffset = ANGLE_STEP * ticks

\* the values the progress control displays
ProgressDisplay == <<timeNow, seeker, barPlayed>>

\* C22: while seeking is true a redraw pass leaves the time label, the
\* marker position and the played-bar fill as the seek preview set them; these
\* change only on pointer-move (seekProgress) or endSeeking.
PreviewAuthoritative ==
  [][/\ (RenderPass /\ isSeeking) => UNCHANGED ProgressDisplay
     /\ (isSeeking /\ ProgressDisplay' # ProgressDisplay) =>
          lastOp'.name \in {"seekProgress", "endSeeking"}]_vars

\* the fill that shows the track's current position; before the duration is
\* known the position is the start of the track (the unset style or 0%)
TrueFill ==
  IF isNaN(audio.duration)
  THEN {"", Pct(Num(0))}
  ELSE {Pct(NumPercent(audio.currentTime, audio.duration))}

\* C23: after endSeeking, seeking is false and the time label, the marker
\* and the played-bar fill show the track's current position, whatever
\* previews or commits preceded it.
EndSeekingHomes ==
  lastOp.name = "endSeeking" =>
    /\ ~isSeeking
    /\ timeNow = parseSecondsToTime(audio.currentTime)
    /\ seeker \in TrueFill
    /\ barPlayed \in TrueFill

\* C24: setVolume(v) with v >= 0 leaves the track un-muted, whether it was
\* muted or not when called, and sets the volume to min(v, 1).
NonNegativeVolumeUnmutes ==
  (CalledSetVolume(lastOp) /\ lastOp.volArg[1] >= 0) =>
    /\ ~audio.muted /\ ~isMuted
    /\ audio.volume = IF lastOp.volArg[1] > VolumeOne
                      THEN VolumeOne ELSE lastOp.volArg[1]

\* C24 witness: setVolume ran with a non-negative value on a muted track,
\* which is now un-muted at that volume
UnmutedByVolume ==
  /\ CalledSetVolume(lastOp) /\ lastOp.volArg[1] >= 0
  /\ lastOp.wasMuted = <<TRUE>>
  /\ ~audio.muted /\ audio.volume = lastOp.volArg[1]

\* C25: every particle has selfRadius > 0 and stepRadius >= 0, whether it
\* was created at field initialization, at any mount width, or at recycling
\* after any sequence of resizes.
ParticlesWellFormed ==
  \A i \in Slots :
    fragmentsArray[i].selfRadius > 0 /\ fragmentsArray[i].stepRadius >= 0

\* C26: the cached derived geometry (the canvas element's size, the spectrum's
\* radius scale and per-bin angle, the stroke width and the particle sizing
\* bounds) is always the one computed from the current canvasSize; a resize
\* notification replaces canvasSize and all of them in one step, or none.
DerivedGeometryCurrent ==
  /\ [](/\ vizplayer = initVizplayer(canvasSize)
        /\ freqMultiplyRate = initFreqMultiplyRate(canvasSize)
        /\ lineWidth = initLineWidth(canvasSize)
        /\ fragmentSize = initFragmentsSize(canvasSize))
  /\ [][canvasSize' # canvasSize => canvasSize' = initCanvasSize(clientWidth')]_vars

\* C26 witness: the container was re-sized after the field was created (a
\* particle is larger than the current bounds allow) and ticks and a redraw
\* pass have run on the new geometry
ResizedThenDrawn ==
  /\ canvasSize = initCanvasSize(16000) /\ fragmentSize = initFragmentsSize(canvasSize)
  /\ \E i \in Slots : fragmentsArray[i].selfRadius > fragmentSize.maxSelfRadius
  /\ ticks > 0 /\ rafFrame = {} /\ rafPending = {}

====
